---------------------------- MODULE Spec2Model ----------------------------
(***************************************************************************)
(* A state-machine model of pyvideothumbnailer.py: the start-up code, the  *)
(* directory walker process_file_or_directory, the per-file routine        *)
(* create_preview_thumbnails and the pure formatters.                      *)
(*                                                                         *)
(* Conventions                                                             *)
(*   - Python's None is the empty tuple <<>>, a present value v is <<v>>.  *)
(*   - Python strings are TLA+ strings (Len, \o and SubSeq work on them).  *)
(*   - A float is an exact rational [num |-> n, den |-> d] with d > 0.     *)
(*     int(x) truncates toward zero.  The inputs of the model are chosen   *)
(*     so that double arithmetic and exact arithmetic give the same        *)
(*     truncated integers.                                                 *)
(*   - The collaborators (decoder, metadata parser, fonts, image encoder)  *)
(*     are described by the contents of the file system: each video file   *)
(*     carries the answers the collaborators give for it.                  *)
(***************************************************************************)
EXTENDS Integers, Sequences, FiniteSets, TLC

VARIABLES
    pc,        \* position of the program: which statement runs next
    args,      \* the argparse Namespace of this run
    params,    \* the PyVideoThumbnailerParameters object
    fs,        \* the file system: path -> [kind, content]
    env,       \* what the environment answers: makedirs success, fonts
    walk,      \* locals of process_file_or_directory: file_names, index
    cpt,       \* locals of the running create_preview_thumbnails call
    log,       \* what the run has done so far: calls, messages, writes
    pure       \* argument and result of a formatter / layout evaluation

vars == <<pc, args, params, fs, env, walk, cpt, log, pure>>

None == <<>>
NoPure == [fn |-> "none"]
Some(v) == <<v>>
IsNone(o) == o = <<>>
Val(o) == o[1]

(***************************************************************************)
(* Bounds of the model.                                                    *)
(***************************************************************************)
MaxSeconds == 7400      \* format_time is applied to 0 .. MaxSeconds seconds
MaxWidth == 40          \* layout widths 0 .. MaxWidth, and the default 800
MaxColumns == 4         \* layout column counts 1 .. MaxColumns
MaxSpacing == 3         \* layout spacings 0 .. MaxSpacing
MaxGrid == 2            \* rows and columns of a run range over -1 .. MaxGrid
MaxOffset == 3          \* sizes lie within MaxOffset of 0, 1024 and 1024^2

(***************************************************************************)
(* Program constants.                                                      *)
(***************************************************************************)
VIDEO_EXTENSIONS ==
    <<".avi", ".divx", ".flv", ".m4v", ".mkv", ".mov", ".mp4", ".mpg", ".wmv">>

DEFAULT_PATH == "/cwd"
DEFAULT_RECURSIVE == FALSE
DEFAULT_WIDTH == 800
DEFAULT_COLUMNS == 4
DEFAULT_ROWS == 3
DEFAULT_SPACING == 2
DEFAULT_HEADER_FONT_NAME == None
DEFAULT_HEADER_FONT_SIZE == 14
DEFAULT_TIMESTAMP_FONT_NAME == None
DEFAULT_TIMESTAMP_FONT_SIZE == 12
DEFAULT_SKIP_SECONDS == 10
DEFAULT_SUFFIX == None
DEFAULT_JPEG_QUALITY == 95
DEFAULT_OVERRIDE_EXISTING == FALSE
DEFAULT_OUTPUT_DIRECTORY == None
DEFAULT_RAISE_ERRORS == FALSE
DEFAULT_VERBOSE == FALSE

(***************************************************************************)
(* Integer and rational arithmetic as Python performs it.                  *)
(***************************************************************************)
Abs(x) == IF x < 0 THEN -x ELSE x

\* int(a / b) for integers a, b with b # 0: truncation toward zero.
TruncDiv(a, b) ==
    IF (a < 0) = (b < 0) THEN Abs(a) \div Abs(b) ELSE -(Abs(a) \div Abs(b))

\* floor(a / b) for b > 0, the mathematical floor.
FloorDiv(a, b) == a \div b

Rat(n, d) == IF d < 0 THEN [num |-> -n, den |-> -d] ELSE [num |-> n, den |-> d]
RatOfInt(n) == [num |-> n, den |-> 1]
RatAdd(x, y) == IF x.den = y.den
                THEN [num |-> x.num + y.num, den |-> x.den]
                ELSE [num |-> x.num * y.den + y.num * x.den, den |-> x.den * y.den]
RatLess(x, y) == x.num * y.den < y.num * x.den
RatLeq(x, y) == x.num * y.den <= y.num * x.den
RatEq(x, y) == x.num * y.den = y.num * x.den
\* int(x) of a float x
RatTrunc(x) == TruncDiv(x.num, x.den)

(***************************************************************************)
(* String helpers.                                                         *)
(***************************************************************************)
CharAt(s, i) == SubSeq(s, i, i)

Digits == "0123456789"

RECURSIVE NatToStr(_)
NatToStr(n) ==
    IF n < 10 THEN CharAt(Digits, n + 1)
    ELSE NatToStr(n \div 10) \o CharAt(Digits, (n % 10) + 1)

\* '{:d}'.format(n)
IntToStr(n) == IF n < 0 THEN "-" \o NatToStr(-n) ELSE NatToStr(n)

\* '{:0>2d}'.format(n): right-aligned in a field of width 2, filled with '0'.
Format02d(n) ==
    LET s == IntToStr(n) IN IF Len(s) < 2 THEN "0" \o s ELSE s


(***************************************************************************)
(* Formatter: format_time.                                                 *)
(***************************************************************************)
\* def format_time(duration_in_seconds: float) -> str
format_time(duration_in_seconds) ==
    LET duration == RatTrunc(duration_in_seconds)
        hours == TruncDiv(duration, 3600)
        minutes == TruncDiv(duration - hours * 60, 60)
        seconds == duration - hours * 60 * 60 - minutes * 60
    IN  Format02d(hours) \o ":" \o Format02d(minutes) \o ":" \o Format02d(seconds)

(***************************************************************************)
(* Formatter: format_size.  A size is the number m * 1024^e, held as the   *)
(* record [m, e] with 0 <= m < 2^21: such a number is exact as a double    *)
(* and stays exact under the divisions by 1024.0, which lower e by one.    *)
(***************************************************************************)
\* for unit in ['', 'Ki', 'Mi', 'Gi', 'Ti', 'Pi', 'Ei', 'Zi']
UNITS == <<"", "Ki", "Mi", "Gi", "Ti", "Pi", "Ei", "Zi">>

Scaled(m, e) == [m |-> m, e |-> e]

\* 1024^k for 0 <= k <= 3
RECURSIVE Pow1024(_)
Pow1024(k) == IF k = 0 THEN 1 ELSE 1024 * Pow1024(k - 1)

\* abs(size) < 1024.0; with m < 2^21, m * 1024^e < 1024 for every e <= -2
AbsBelow1024(x) ==
    \/ x.m = 0
    \/ (x.e <= 0 /\ (x.e <= -2 \/ x.m < Pow1024(1 - x.e)))

\* size /= 1024.0
Div1024(x) == [x EXCEPT !.e = @ - 1]

\* n / d rounded to the nearest integer, ties to the even one
RoundHalfEven(n, d) ==
    LET q == n \div d
        r == n % d
    IN  IF 2 * r > d THEN q + 1
        ELSE IF 2 * r = d THEN q + (q % 2)
        ELSE q

\* The value in hundredths as '{:.2f}' rounds it.
Hundredths(x) ==
    IF x.m = 0 THEN 0
    ELSE IF x.e >= 0 THEN x.m * Pow1024(x.e) * 100
    ELSE RoundHalfEven(x.m * 100, Pow1024(-x.e))

\* '{:.2f}'.format(x) of a non-negative value given in hundredths
Fixed2f(h) == IntToStr(h \div 100) \o "." \o Format02d(h % 100)

\* '{:.2f} {}{}'.format(size, unit, suffix), with the position of the unit
\* (0 for '', 8 for 'Yi') and the printed value in hundredths kept beside
\* the text.
FormattedSize(x, index, unit, suffix) ==
    [text |-> Fixed2f(Hundredths(x)) \o " " \o unit \o suffix,
     unit |-> index, hundredths |-> Hundredths(x)]

\* The loop of format_size from the unit at position index on.
RECURSIVE format_size_from(_, _, _)
format_size_from(size, index, suffix) ==
    IF index >= Len(UNITS)
    THEN FormattedSize(size, index, "Yi", suffix)
    ELSE IF AbsBelow1024(size)
    THEN FormattedSize(size, index, UNITS[index + 1], suffix)
    ELSE format_size_from(Div1024(size), index + 1, suffix)

\* def format_size(size: int, suffix: str = 'B') -> str
format_size(size, suffix) == format_size_from(size, 0, suffix)

(***************************************************************************)
(* Layout: the geometry computed by create_preview_thumbnails.             *)
(***************************************************************************)
\* video_aspect = float(video_width) / float(video_height)
video_aspect(video_width, video_height) == Rat(video_width, video_height)

\* thumbnail_width = float(width - x_spacing * (columns + 1)) / float(columns)
thumbnail_width_float(width, columns, x_spacing) ==
    Rat(width - x_spacing * (columns + 1), columns)

\* Faulty variant: the height taken from the already truncated width.
thumbnail_height_from_int_width(width, columns, x_spacing, video_width, video_height) ==
    TruncDiv(RatTrunc(thumbnail_width_float(width, columns, x_spacing)) * video_height,
             video_width)

\* thumbnail_height = int(thumbnail_width / video_aspect), taken while
\* thumbnail_width is still the float quotient.
thumbnail_height(width, columns, x_spacing, video_width, video_height) ==
    LET w == thumbnail_width_float(width, columns, x_spacing)
        a == video_aspect(video_width, video_height)
    IN  RatTrunc(Rat(w.num * a.den, w.den * a.num))

\* Faulty variant: int(round(thumbnail_width)) instead of int(thumbnail_width).
thumbnail_width_rounded(width, columns, x_spacing) ==
    LET w == thumbnail_width_float(width, columns, x_spacing)
    IN  FloorDiv(2 * w.num + w.den, 2 * w.den)

\* thumbnail_width = int(thumbnail_width)
thumbnail_width(width, columns, x_spacing) ==
    RatTrunc(thumbnail_width_float(width, columns, x_spacing))

\* image_width = thumbnail_width * columns + x_spacing * (columns + 1)
image_width(width, columns, x_spacing) ==
    thumbnail_width(width, columns, x_spacing) * columns + x_spacing * (columns + 1)

\* image_height = header_height + thumbnail_height * rows + y_spacing * (rows + 1)
image_height(header_height, thumb_height, rows, y_spacing) ==
    header_height + thumb_height * rows + y_spacing * (rows + 1)

(***************************************************************************)
(* Strings and paths: str.lower, str.endswith, sorted, os.path.            *)
(***************************************************************************)
UpperCase == "ABCDEFGHIJKLMNOPQRSTUVWXYZ"
LowerCase == "abcdefghijklmnopqrstuvwxyz"
\* The characters of the model's names in code-point order.
CodePoints == "-./0123456789ABCDEFGHIJKLMNOPQRSTUVWXYZ_abcdefghijklmnopqrstuvwxyz"

IndexIn(alphabet, c) ==
    IF \E i \in 1 .. Len(alphabet) : CharAt(alphabet, i) = c
    THEN CHOOSE i \in 1 .. Len(alphabet) : CharAt(alphabet, i) = c
    ELSE 0

LowerChar(c) ==
    IF IndexIn(UpperCase, c) = 0 THEN c ELSE CharAt(LowerCase, IndexIn(UpperCase, c))

\* str.lower()
RECURSIVE Lower(_)
Lower(s) ==
    IF Len(s) = 0 THEN ""
    ELSE LowerChar(CharAt(s, 1)) \o Lower(SubSeq(s, 2, Len(s)))

\* str.endswith(suffix) and str.startswith(prefix) for one string
EndsWith(s, suffix) ==
    /\ Len(suffix) <= Len(s)
    /\ SubSeq(s, Len(s) - Len(suffix) + 1, Len(s)) = suffix

StartsWith(s, prefix) ==
    /\ Len(prefix) <= Len(s)
    /\ SubSeq(s, 1, Len(prefix)) = prefix

\* Python's string order: by code point, a proper prefix first.
RECURSIVE StrLess(_, _)
StrLess(a, b) ==
    IF Len(b) = 0 THEN FALSE
    ELSE IF Len(a) = 0 THEN TRUE
    ELSE IF CharAt(a, 1) = CharAt(b, 1)
         THEN StrLess(SubSeq(a, 2, Len(a)), SubSeq(b, 2, Len(b)))
         ELSE IndexIn(CodePoints, CharAt(a, 1)) < IndexIn(CodePoints, CharAt(b, 1))

\* sorted(names)
RECURSIVE sorted(_)
sorted(names) ==
    IF names = {} THEN <<>>
    ELSE LET least == CHOOSE n \in names : \A m \in names \ {n} : StrLess(n, m)
         IN  <<least>> \o sorted(names \ {least})

\* Position of the last '/' of p, 0 when there is none.
LastSlash(p) ==
    IF \E i \in 1 .. Len(p) : CharAt(p, i) = "/"
    THEN CHOOSE i \in 1 .. Len(p) :
            /\ CharAt(p, i) = "/"
            /\ \A j \in (i + 1) .. Len(p) : CharAt(p, j) # "/"
    ELSE 0

\* os.path.split(p): <<head, tail>>; the head loses its trailing slash
\* unless it is the root.
os_path_split(p) ==
    LET i == LastSlash(p)
        head == SubSeq(p, 1, i)
        tail == SubSeq(p, i + 1, Len(p))
    IN  <<IF i > 1 THEN SubSeq(p, 1, i - 1) ELSE head, tail>>

\* os.path.basename(p)
os_path_basename(p) == os_path_split(p)[2]

\* os.path.join(a, b)
os_path_join(a, b) ==
    IF StartsWith(b, "/") THEN b
    ELSE IF Len(a) = 0 \/ EndsWith(a, "/") THEN a \o b
    ELSE a \o "/" \o b

(***************************************************************************)
(* The file system.                                                        *)
(***************************************************************************)
os_path_exists(files, p) == p \in DOMAIN files
os_path_isdir(files, p) == p \in DOMAIN files /\ files[p].kind = "dir"
os_path_isfile(files, p) == p \in DOMAIN files /\ files[p].kind = "file"

\* os.listdir(p): the names of the direct entries of directory p
os_listdir(files, p) ==
    { os_path_basename(q) : q \in { r \in DOMAIN files :
                                      /\ Len(r) > 0
                                      /\ r # p
                                      /\ os_path_split(r)[1] = p } }

\* def has_video_extension(file_name: str) -> bool
has_video_extension(file_name) ==
    \E i \in 1 .. Len(VIDEO_EXTENSIONS) : EndsWith(Lower(file_name), VIDEO_EXTENSIONS[i])

(***************************************************************************)
(* Parameters: PyVideoThumbnailerParameters and get_parameters.            *)
(* The fields that can hold None are kept as options.                      *)
(***************************************************************************)
\* PyVideoThumbnailerParameters.from_defaults()
from_defaults ==
    [path |-> DEFAULT_PATH,
     recursive |-> DEFAULT_RECURSIVE,
     width |-> DEFAULT_WIDTH,
     columns |-> DEFAULT_COLUMNS,
     rows |-> DEFAULT_ROWS,
     spacing |-> DEFAULT_SPACING,
     header_font_name |-> DEFAULT_HEADER_FONT_NAME,
     header_font_size |-> DEFAULT_HEADER_FONT_SIZE,
     timestamp_font_name |-> DEFAULT_TIMESTAMP_FONT_NAME,
     timestamp_font_size |-> Some(DEFAULT_TIMESTAMP_FONT_SIZE),
     skip_seconds |-> DEFAULT_SKIP_SECONDS,
     suffix |-> DEFAULT_SUFFIX,
     jpeg_quality |-> DEFAULT_JPEG_QUALITY,
     override_existing |-> DEFAULT_OVERRIDE_EXISTING,
     output_directory_path |-> DEFAULT_OUTPUT_DIRECTORY,
     raise_errors |-> DEFAULT_RAISE_ERRORS,
     verbose |-> DEFAULT_VERBOSE]

\* parse_args() of a command line without any argument
NoArgs ==
    [filename |-> None, recursive |-> FALSE, width |-> None, columns |-> None,
     rows |-> None, spacing |-> None, header_font |-> None,
     header_font_size |-> None, timestamp_font |-> None,
     timestamp_font_size |-> None, skip_seconds |-> None, suffix |-> None,
     jpeg_quality |-> None, override_existing |-> FALSE,
     output_directory |-> None, raise_errors |-> FALSE, verbose |-> FALSE]

\* def get_parameters() -> PyVideoThumbnailerParameters, on the parsed args a
get_parameters(a) ==
    LET d == from_defaults
    IN  [path |-> IF ~IsNone(a.filename) THEN Val(a.filename) ELSE d.path,
         recursive |-> IF a.recursive # FALSE THEN a.recursive ELSE d.recursive,
         width |-> IF ~IsNone(a.width) THEN Val(a.width) ELSE d.width,
         columns |-> IF ~IsNone(a.columns) THEN Val(a.columns) ELSE d.columns,
         rows |-> IF ~IsNone(a.rows) THEN Val(a.rows) ELSE d.rows,
         spacing |-> IF ~IsNone(a.spacing) THEN Val(a.spacing) ELSE d.spacing,
         header_font_name |->
             IF ~IsNone(a.header_font) THEN a.header_font ELSE d.header_font_name,
         header_font_size |->
             IF ~IsNone(a.header_font_size) THEN Val(a.header_font_size)
             ELSE d.header_font_size,
         timestamp_font_name |->
             IF ~IsNone(a.timestamp_font) THEN a.timestamp_font
             ELSE d.timestamp_font_name,
         \* guarded by args.header_font_size, assigned args.timestamp_font_size
         timestamp_font_size |->
             IF ~IsNone(a.header_font_size) THEN a.timestamp_font_size
             ELSE d.timestamp_font_size,
         skip_seconds |->
             IF ~IsNone(a.skip_seconds) THEN Val(a.skip_seconds) ELSE d.skip_seconds,
         suffix |-> IF ~IsNone(a.suffix) THEN a.suffix ELSE d.suffix,
         jpeg_quality |->
             IF ~IsNone(a.jpeg_quality) THEN Val(a.jpeg_quality) ELSE d.jpeg_quality,
         override_existing |->
             IF a.override_existing # FALSE THEN a.override_existing
             ELSE d.override_existing,
         output_directory_path |->
             IF ~IsNone(a.output_directory) THEN a.output_directory
             ELSE d.output_directory_path,
         raise_errors |->
             IF a.raise_errors # FALSE THEN a.raise_errors ELSE d.raise_errors,
         verbose |-> a.verbose]

(***************************************************************************)
(* The files of the model.  A video file carries what the decoder and the  *)
(* metadata parser report for it.                                          *)
(***************************************************************************)
\* Decoded pixel sizes of the videos of the model (16:9 and 4:3).  For these
\* sizes double arithmetic and the exact quotient agree on every layout
\* input within the bounds.
VideoSizes == { <<1920, 1080>>, <<640, 480>> }

Dir == [kind |-> "dir"]
TextFile == [kind |-> "file", content |-> [type |-> "text"]]
OldImage == [kind |-> "file", content |-> [type |-> "jpeg", of |-> "earlier run"]]

Track(type) == [track_type |-> type, data |-> [file_size |-> 4096]]
AllTracks == <<Track("General"), Track("Video"), Track("Audio")>>

\* A video: opens says whether VideoFileClip accepts the file, bad_frame is
\* the number of the capture request at which the decoder fails (0: never).
Video(opens, size, fps, duration, tracks, bad_frame) ==
    [kind |-> "file",
     content |-> [type |-> "video", opens |-> opens, w |-> size[1], h |-> size[2],
                  fps |-> fps, duration |-> duration, nframes |-> fps * duration,
                  tracks |-> tracks, bad_frame |-> bad_frame]]

GoodVideo == Video(TRUE, <<1920, 1080>>, 25, 60, AllTracks, 0)
BrokenVideo == Video(FALSE, <<1920, 1080>>, 25, 60, AllTracks, 0)

\* The environment outside the file system: whether os.makedirs succeeds,
\* which true type fonts can be loaded, the text height the fonts report and
\* whether the output image can be written.
Env(makedirs_ok, save_ok) ==
    [makedirs_ok |-> makedirs_ok, save_ok |-> save_ok,
     fonts |-> {"Good.ttf"}, text_height |-> 11]

\* A finite function from the pairs <<path, entry>> of a set
RECURSIVE Files(_)
Files(pairs) ==
    IF pairs = {} THEN <<>>
    ELSE LET x == CHOOSE y \in pairs : TRUE
         IN  (x[1] :> x[2]) @@ Files(pairs \ {x})

\* The locals of create_preview_thumbnails before any call; frames are the
\* times asked of get_frame, raised_at is the step an exception came from,
\* fs_before is the file system when the call began.
NoCall ==
    [file_path |-> "", suffix |-> None, image_path |-> None, clip |-> "unopened",
     video |-> None, number_thumbnails |-> 0, time_step |-> RatOfInt(0),
     metadata |-> None, layout |-> None, canvas |-> None,
     time |-> RatOfInt(0), thumbnail_count |-> 0, row_index |-> 0,
     column_index |-> 0, frames |-> <<>>, saved |-> 0, messages |-> <<>>,
     result |-> "none", exception |-> None, raised_at |-> "", fs_before |-> <<>>]

NoWalk == [file_names |-> <<>>, index |-> 1]

\* What the run has done: the files handed to create_preview_thumbnails, the
\* errors the walker reported, the paths written, the uncaught exception and
\* the statement it came from, the exit code; fs0 and params0 keep the file
\* system at the start and the parameters as get_parameters returned them.
NoLog ==
    [handed |-> <<>>, errors |-> <<>>, writes |-> <<>>, messages |-> <<>>,
     exception |-> None, exit_code |-> None, crashed_at |-> "",
     fs0 |-> <<>>, params0 |-> None]

Start(a, files, e) ==
    /\ pc = "get_parameters"
    /\ args = a
    /\ params = from_defaults
    /\ fs = files
    /\ env = e
    /\ walk = NoWalk
    /\ cpt = NoCall
    /\ log = [NoLog EXCEPT !.fs0 = files]
    /\ pure = NoPure

(***************************************************************************)
(* Start-up: the __main__ block.                                           *)
(***************************************************************************)
\* An exception nobody catches ends the interpreter with exit code 1.
Crash(exc) ==
    /\ pc' = "crashed"
    /\ log' = [log EXCEPT !.exception = Some(exc), !.exit_code = Some(1),
                          !.crashed_at = pc]

\* params = get_parameters()
GetParameters ==
    /\ pc = "get_parameters"
    /\ params' = get_parameters(args)
    /\ log' = [log EXCEPT !.params0 = Some(get_parameters(args))]
    /\ pc' = "output_directory"
    /\ UNCHANGED <<args, fs, env, walk, cpt, pure>>

\* if params.output_directory_path is not None: ... (not taken)
OutputDirectoryUnset ==
    /\ pc = "output_directory"
    /\ IsNone(params.output_directory_path)
    /\ pc' = "process"
    /\ UNCHANGED <<args, params, fs, env, walk, cpt, log, pure>>

\* The directory does not exist and os.makedirs creates it.
OutputDirectoryCreate ==
    /\ pc = "output_directory"
    /\ ~IsNone(params.output_directory_path)
    /\ ~os_path_exists(fs, Val(params.output_directory_path))
    /\ env.makedirs_ok
    /\ fs' = (Val(params.output_directory_path) :> Dir) @@ fs
    /\ pc' = "process"
    /\ UNCHANGED <<args, params, env, walk, cpt, log, pure>>

\* The directory does not exist and os.makedirs raises: sys.exit(1).
OutputDirectoryCreateFails ==
    /\ pc = "output_directory"
    /\ ~IsNone(params.output_directory_path)
    /\ ~os_path_exists(fs, Val(params.output_directory_path))
    /\ ~env.makedirs_ok
    /\ pc' = "exited"
    /\ log' = [log EXCEPT !.messages = Append(@, "Unable to create output directory"),
                          !.exit_code = Some(1)]
    /\ UNCHANGED <<args, params, fs, env, walk, cpt, pure>>

\* The path exists: the elif reads params.output_directory, an attribute the
\* parameters object does not have, and the AttributeError is not caught.
OutputDirectoryExists ==
    /\ pc = "output_directory"
    /\ ~IsNone(params.output_directory_path)
    /\ os_path_exists(fs, Val(params.output_directory_path))
    /\ Crash("AttributeError")
    /\ UNCHANGED <<args, params, fs, env, walk, cpt, pure>>

(***************************************************************************)
(* The walker: process_file_or_directory.                                  *)
(***************************************************************************)
\* Lines 465-479: what to iterate over.
ProcessStart ==
    /\ pc = "process"
    /\ IF os_path_isdir(fs, params.path)
       THEN /\ walk' = [file_names |-> sorted(os_listdir(fs, params.path)), index |-> 1]
            /\ pc' = "walk"
            /\ UNCHANGED <<params, log>>
       ELSE IF os_path_isfile(fs, params.path)
       THEN /\ params' = [params EXCEPT !.path = os_path_split(params.path)[1]]
            /\ walk' = [file_names |-> <<os_path_split(params.path)[2]>>, index |-> 1]
            /\ pc' = "walk"
            /\ UNCHANGED log
       ELSE /\ log' = [log EXCEPT
                          !.messages = Append(@, "neither a file nor a directory"),
                          !.exit_code = Some(0)]
            /\ pc' = "done"
            /\ UNCHANGED <<params, walk>>
    /\ UNCHANGED <<args, fs, env, cpt, pure>>

MoreEntries == walk.index <= Len(walk.file_names)
file_name == walk.file_names[walk.index]
\* file_path = os.path.join(params.path, file_name)
file_path == os_path_join(params.path, file_name)

\* The for loop has run out of entries: the function returns, the run ends.
WalkDone ==
    /\ pc = "walk"
    /\ ~MoreEntries
    /\ pc' = "done"
    /\ log' = [log EXCEPT !.exit_code = Some(0)]
    /\ UNCHANGED <<args, params, fs, env, walk, cpt, pure>>

\* if params.recursive and os.path.isdir(file_path):
\*     process_file_or_directory(file_path, True)
\* The function takes one argument: the call raises TypeError, outside any try.
WalkRecurse ==
    /\ pc = "walk"
    /\ MoreEntries
    /\ params.recursive
    /\ os_path_isdir(fs, file_path)
    /\ Crash("TypeError")
    /\ UNCHANGED <<args, params, fs, env, walk, cpt, pure>>

\* elif os.path.isfile(file_path) and has_video_extension(file_name):
\*     create_preview_thumbnails(params, file_path)
WalkCreate ==
    /\ pc = "walk"
    /\ MoreEntries
    /\ ~(params.recursive /\ os_path_isdir(fs, file_path))
    /\ os_path_isfile(fs, file_path)
    /\ has_video_extension(file_name)
    /\ log' = [log EXCEPT !.handed = Append(@, file_path)]
    /\ cpt' = [NoCall EXCEPT !.file_path = file_path, !.result = "running",
                             !.fs_before = fs]
    /\ pc' = "cpt_image_path"
    /\ UNCHANGED <<args, params, fs, env, walk, pure>>

\* Neither branch applies: the next entry.
WalkSkip ==
    /\ pc = "walk"
    /\ MoreEntries
    /\ ~(params.recursive /\ os_path_isdir(fs, file_path))
    /\ ~(os_path_isfile(fs, file_path) /\ has_video_extension(file_name))
    /\ walk' = [walk EXCEPT !.index = @ + 1]
    /\ UNCHANGED <<pc, args, params, fs, env, cpt, log, pure>>

\* create_preview_thumbnails returned: the next entry.
AfterCreate ==
    /\ pc = "cpt_returned"
    /\ walk' = [walk EXCEPT !.index = @ + 1]
    /\ pc' = "walk"
    /\ UNCHANGED <<args, params, fs, env, cpt, log, pure>>

\* except Exception as e: raise it again or report it and go on.
ExceptHandler ==
    /\ pc = "cpt_raised"
    /\ IF params.raise_errors
       THEN /\ Crash(Val(cpt.exception))
            /\ UNCHANGED walk
       ELSE /\ log' = [log EXCEPT !.errors =
                          Append(@, [file |-> cpt.file_path, error |-> Val(cpt.exception)])]
            /\ walk' = [walk EXCEPT !.index = @ + 1]
            /\ pc' = "walk"
    /\ UNCHANGED <<args, params, fs, env, cpt, pure>>

(***************************************************************************)
(* create_preview_thumbnails, statement group by statement group.          *)
(***************************************************************************)
\* return
Return(c) ==
    /\ cpt' = [c EXCEPT !.result = "returned"]
    /\ pc' = "cpt_returned"

\* an exception leaves the function
Raise(c, exc) ==
    /\ cpt' = [c EXCEPT !.result = "raised", !.exception = Some(exc),
                         !.raised_at = pc]
    /\ pc' = "cpt_raised"

Say(c, message) == [c EXCEPT !.messages = Append(@, message)]

\* Lines 183-184: the local suffix is assigned only when params.suffix is
\* None; otherwise the name stays unbound (None here).
local_suffix(p) == IF IsNone(p.suffix) THEN Some("") ELSE None

\* Lines 185-189: the path of the image, from a bound suffix.
image_path(p, video_path, suffix) ==
    IF IsNone(p.output_directory_path)
    THEN video_path \o suffix \o ".jpg"
    ELSE os_path_join(Val(p.output_directory_path),
                      os_path_basename(video_path) \o suffix \o ".jpg")

\* Lines 183-189.  Reading the unbound local raises UnboundLocalError.
CptImagePath ==
    /\ pc = "cpt_image_path"
    /\ IF IsNone(local_suffix(params))
       THEN Raise(cpt, "UnboundLocalError")
       ELSE /\ cpt' = [cpt EXCEPT
                          !.suffix = local_suffix(params),
                          !.image_path = Some(image_path(params, cpt.file_path,
                                                         Val(local_suffix(params))))]
            /\ pc' = "cpt_check_existing"
    /\ UNCHANGED <<args, params, fs, env, walk, log, pure>>

\* Lines 191-201.
CptCheckExisting ==
    /\ pc = "cpt_check_existing"
    /\ IF os_path_exists(fs, Val(cpt.image_path))
       THEN IF ~params.override_existing
            THEN Return(Say(cpt, "exists, shall not be overridden"))
            ELSE IF ~os_path_isfile(fs, Val(cpt.image_path))
            THEN Return(Say(cpt, "exists, is not a file"))
            ELSE /\ cpt' = Say(Say(cpt, "will be overridden"), "Creating preview thumbnails")
                 /\ pc' = "cpt_open"
       ELSE /\ cpt' = Say(cpt, "Creating preview thumbnails")
            /\ pc' = "cpt_open"
    /\ UNCHANGED <<args, params, fs, env, walk, log, pure>>

\* Lines 203-217: VideoFileClip(file_path) raises an IOError if the file is
\* not a video the decoder can open.
CptOpen ==
    /\ pc = "cpt_open"
    /\ LET v == fs[cpt.file_path].content
       IN  IF v.type # "video" \/ ~v.opens
           THEN Raise(cpt, "IOError")
           ELSE /\ cpt' = [cpt EXCEPT !.clip = "open", !.video = Some(v)]
                /\ pc' = "cpt_check_duration"
    /\ UNCHANGED <<args, params, fs, env, walk, log, pure>>

\* time_step = (duration - params.skip_seconds) / number_thumbnails
time_step(duration, skip_seconds, number_thumbnails) ==
    Rat(duration - skip_seconds, number_thumbnails)

\* Lines 219-228.
CptCheckDuration ==
    /\ pc = "cpt_check_duration"
    /\ LET v == Val(cpt.video)
           number_thumbnails == params.rows * params.columns
           c == [cpt EXCEPT !.number_thumbnails = number_thumbnails]
       IN  IF params.skip_seconds >= v.duration
           THEN Return(Say(c, "Time to skip is longer than the duration"))
           ELSE IF number_thumbnails = 0
           THEN Raise(c, "ZeroDivisionError")
           ELSE IF RatLess(time_step(v.duration, params.skip_seconds, number_thumbnails),
                           Rat(1, v.fps))
           THEN Return(Say(c, "Video clip is too short"))
           ELSE /\ cpt' = [c EXCEPT !.time_step =
                              time_step(v.duration, params.skip_seconds, number_thumbnails)]
                /\ pc' = "cpt_metadata"
    /\ UNCHANGED <<args, params, fs, env, walk, log, pure>>

\* The data of the first track of a type, None when there is none.
FirstTrack(tracks, type) ==
    IF \E i \in 1 .. Len(tracks) : tracks[i].track_type = type
    THEN Some(tracks[CHOOSE i \in 1 .. Len(tracks) :
                        /\ tracks[i].track_type = type
                        /\ \A j \in 1 .. (i - 1) : tracks[j].track_type # type].data)
    ELSE None

\* Lines 230-266: general_metadata['file_size'] is read before the video
\* track is looked at; subscripting None raises TypeError.
CptMetadata ==
    /\ pc = "cpt_metadata"
    /\ LET tracks == Val(cpt.video).tracks
           m == [general |-> FirstTrack(tracks, "General"),
                 video |-> FirstTrack(tracks, "Video"),
                 audio |-> FirstTrack(tracks, "Audio")]
           c == [cpt EXCEPT !.metadata = Some(m)]
       IN  IF IsNone(m.general)
           THEN Raise(c, "TypeError")
           ELSE IF IsNone(m.video)
           THEN Return(c)
           ELSE /\ cpt' = c
                /\ pc' = "cpt_layout"
    /\ UNCHANGED <<args, params, fs, env, walk, log, pure>>

\* ImageFont.load_default() or ImageFont.truetype(name, size): the name of
\* the error the load raises, None when the font loads.
FontError(name, size) ==
    IF IsNone(name) THEN None
    ELSE IF IsNone(size) THEN Some("TypeError")
    ELSE IF Val(name) \notin env.fonts THEN Some("OSError")
    ELSE None

\* header_height, lines 346-354, four text lines of height h
header_height(y_spacing, h) == y_spacing + h + 2 + h + 2 + h + 2 + h

\* Lines 327-398: fonts, geometry, the canvas with its header, the first
\* capture time.
CptLayout ==
    /\ pc = "cpt_layout"
    /\ LET v == Val(cpt.video)
           hh == header_height(params.spacing, env.text_height)
           tw == thumbnail_width(params.width, params.columns, params.spacing)
           th == thumbnail_height(params.width, params.columns, params.spacing, v.w, v.h)
           iw == image_width(params.width, params.columns, params.spacing)
           ih == image_height(hh, th, params.rows, params.spacing)
           lay == [header_height |-> hh, thumbnail_width |-> tw,
                   thumbnail_height |-> th, image_width |-> iw, image_height |-> ih]
           drawn == [cpt EXCEPT !.layout = Some(lay),
                                !.canvas = Some([width |-> iw, height |-> ih,
                                                 header_lines |-> 4, cells |-> <<>>])]
       IN  IF ~IsNone(FontError(params.header_font_name, Some(params.header_font_size)))
           THEN Raise(cpt, Val(FontError(params.header_font_name,
                                         Some(params.header_font_size))))
           ELSE IF ~IsNone(FontError(params.timestamp_font_name,
                                     params.timestamp_font_size))
           THEN Raise(drawn, Val(FontError(params.timestamp_font_name,
                                           params.timestamp_font_size)))
           ELSE /\ cpt' = [drawn EXCEPT !.time = RatOfInt(params.skip_seconds),
                                        !.thumbnail_count = 0,
                                        !.row_index = 0, !.column_index = 0]
                /\ pc' = "cpt_capture"
    /\ UNCHANGED <<args, params, fs, env, walk, log, pure>>

\* Faulty variant: the loops stop one row early.
MoreCellsButLastRow ==
    cpt.row_index < params.rows - 1 /\ cpt.column_index < params.columns

\* for row_index in range(params.rows): for column_index in range(params.columns):
\* whether the loops have a cell left to fill.
MoreCells == cpt.row_index < params.rows /\ cpt.column_index < params.columns

\* Faulty variant: the capture time is not advanced.
next_time_unchanged(time, step) == time

\* time += time_step
next_time(time, step) == RatAdd(time, step)

\* Lines 401-428: one pass of the inner loop body.
CptCapture ==
    /\ pc = "cpt_capture"
    /\ MoreCells
    /\ LET lay == Val(cpt.layout)
           x == cpt.column_index * lay.thumbnail_width
                  + (cpt.column_index + 1) * params.spacing
           y == lay.header_height + cpt.row_index * lay.thumbnail_height
                  + (cpt.row_index + 1) * params.spacing
           asked == [cpt EXCEPT !.frames = Append(@, cpt.time)]
           last_column == cpt.column_index + 1 >= params.columns
       IN  IF Val(cpt.video).bad_frame = cpt.thumbnail_count + 1
           THEN Raise(asked, "IOError")
           ELSE /\ cpt' = [asked EXCEPT
                             !.canvas = Some([Val(cpt.canvas) EXCEPT !.cells =
                                 Append(@, [x |-> x, y |-> y, row |-> cpt.row_index,
                                            column |-> cpt.column_index,
                                            label |-> format_time(cpt.time)])]),
                             !.thumbnail_count = @ + 1,
                             !.time = next_time(cpt.time, cpt.time_step),
                             !.row_index = IF last_column THEN @ + 1 ELSE @,
                             !.column_index = IF last_column THEN 0 ELSE @ + 1]
                /\ pc' = "cpt_capture"
    /\ UNCHANGED <<args, params, fs, env, walk, log, pure>>

\* Lines 430-433: thumbnails_image.save(image_path, quality=...).
CptSave ==
    /\ pc = "cpt_capture"
    /\ ~MoreCells
    /\ IF env.save_ok
       THEN /\ fs' = (Val(cpt.image_path) :>
                        [kind |-> "file",
                         content |-> [type |-> "jpeg", of |-> cpt.file_path,
                                      quality |-> params.jpeg_quality,
                                      canvas |-> Val(cpt.canvas)]]) @@ fs
            /\ cpt' = [cpt EXCEPT !.saved = @ + 1]
            /\ log' = [log EXCEPT !.writes = Append(@, Val(cpt.image_path))]
            /\ pc' = "cpt_close"
       ELSE /\ Raise(cpt, "OSError")
            /\ UNCHANGED <<fs, log>>
    /\ UNCHANGED <<args, params, env, walk, pure>>

\* Lines 435-437: video_clip.close(), print('Done.'), the function returns.
CptClose ==
    /\ pc = "cpt_close"
    /\ Return(Say([cpt EXCEPT !.clip = "closed"], "Done."))
    /\ UNCHANGED <<args, params, fs, env, walk, log, pure>>

(***************************************************************************)
(* The runs of the model: command lines and file systems.                  *)
(***************************************************************************)
Booleans == {TRUE, FALSE}
Suffixes == {None, Some(""), Some("_x")}

\* The output directory named on the command line and what is at that path
\* before the run: "absent", "file" or "dir".
OutputDirectoryFiles(state) ==
    IF state = "dir" THEN {<<"out", Dir>>}
    ELSE IF state = "file" THEN {<<"out", TextFile>>}
    ELSE {}

\* Runs over the directory "vids": any choice of its entries a.mp4, c.txt,
\* sub/ (holding b.mkv) and z.MKV, the videos sound or not openable.
InitWalk ==
    \E a \in {None, Some(GoodVideo), Some(BrokenVideo)},
       z \in {None, Some(GoodVideo), Some(BrokenVideo)},
       c \in Booleans, sub \in Booleans,
       recursive \in Booleans, raise_errors \in Booleans,
       suffix \in {None, Some("_x")},
       out \in {"unset", "absent", "file", "dir"},
       makedirs_ok \in Booleans :
       /\ (out # "absent" => makedirs_ok)
       /\ Start([NoArgs EXCEPT !.filename = Some("vids"),
                               !.recursive = recursive,
                               !.raise_errors = raise_errors,
                               !.suffix = suffix,
                               !.rows = Some(1), !.columns = Some(2),
                               !.output_directory =
                                   IF out = "unset" THEN None ELSE Some("out")],
                Files({<<"vids", Dir>>}
                      \cup (IF IsNone(a) THEN {} ELSE {<<"vids/a.mp4", Val(a)>>})
                      \cup (IF IsNone(z) THEN {} ELSE {<<"vids/z.MKV", Val(z)>>})
                      \cup (IF c THEN {<<"vids/c.txt", TextFile>>} ELSE {})
                      \cup (IF sub THEN {<<"vids/sub", Dir>>, <<"vids/sub/b.mkv", GoodVideo>>}
                            ELSE {})
                      \cup OutputDirectoryFiles(out)),
                Env(makedirs_ok, TRUE))

\* Runs on one video, named in four ways (in a directory, in the working
\* directory, by the default path, a path that does not exist), with every
\* suffix, with and without an output directory, and with a file, a
\* directory or nothing at the path of the image.
InitPaths ==
    \E filename \in {Some("vids/a.mp4"), Some("a.mp4"), Some("nope"), None},
       suffix \in Suffixes,
       out \in {"unset", "absent"},
       override \in Booleans,
       existing \in {"nothing", "file", "dir"},
       save_ok \in Booleans :
       LET video == IF filename = Some("vids/a.mp4") THEN "vids/a.mp4"
                    ELSE IF filename = Some("a.mp4") THEN "a.mp4"
                    ELSE "/cwd/a.mp4"
           image == video \o (IF IsNone(suffix) THEN "" ELSE Val(suffix)) \o ".jpg"
       IN  Start([NoArgs EXCEPT !.filename = filename,
                                !.suffix = suffix,
                                !.override_existing = override,
                                !.rows = Some(1), !.columns = Some(2),
                                !.output_directory =
                                    IF out = "unset" THEN None ELSE Some("out")],
                 Files({<<"vids", Dir>>, <<"/cwd", Dir>>, <<video, GoodVideo>>}
                       \cup (IF existing = "file" THEN {<<image, OldImage>>}
                             ELSE IF existing = "dir" THEN {<<image, Dir>>}
                             ELSE {})),
                 Env(TRUE, save_ok))

\* Runs on one video with every grid within the bounds (and the default
\* grid), several skip times, durations and frame rates, and a decoder that
\* fails at the first or second capture or never.
InitTiming ==
    \E rows \in {None} \cup {Some(n) : n \in -1 .. MaxGrid},
       columns \in {None} \cup {Some(n) : n \in -1 .. MaxGrid},
       skip \in {None, Some(0), Some(5)},
       duration \in {5, 10, 12},
       fps \in {1, 25},
       bad_frame \in 0 .. 2,
       suffix \in {None, Some("_x")} :
       /\ IsNone(rows) = IsNone(columns)
       /\ Start([NoArgs EXCEPT !.filename = Some("vids/a.mp4"),
                               !.suffix = suffix,
                               !.rows = rows, !.columns = columns,
                               !.skip_seconds = skip],
                Files({<<"vids", Dir>>,
                       <<"vids/a.mp4",
                         Video(TRUE, <<1920, 1080>>, fps, duration, AllTracks, bad_frame)>>}),
                Env(TRUE, TRUE))

\* Runs on one video with every selection of metadata tracks and every
\* choice of fonts.
InitMetadata ==
    \E tracks \in {AllTracks,
                   <<Track("General"), Track("Video")>>,
                   <<Track("General"), Track("Audio")>>,
                   <<Track("Video"), Track("Audio")>>,
                   <<Track("General")>>, <<Track("Video")>>, <<>>},
       header_font \in {None, Some("Good.ttf"), Some("Missing.ttf")},
       timestamp_font \in {None, Some("Good.ttf"), Some("Missing.ttf")},
       header_font_size \in {None, Some(20)},
       timestamp_font_size \in {None, Some(10)},
       size \in VideoSizes :
       Start([NoArgs EXCEPT !.filename = Some("vids/a.mp4"),
                            !.rows = Some(1), !.columns = Some(2),
                            !.header_font = header_font,
                            !.timestamp_font = timestamp_font,
                            !.header_font_size = header_font_size,
                            !.timestamp_font_size = timestamp_font_size],
             Files({<<"vids", Dir>>,
                    <<"vids/a.mp4", Video(TRUE, size, 25, 60, tracks, 0)>>}),
             Env(TRUE, TRUE))

Init == InitWalk \/ InitPaths \/ InitTiming \/ InitMetadata

Next ==
    \/ GetParameters
    \/ OutputDirectoryUnset
    \/ OutputDirectoryCreate
    \/ OutputDirectoryCreateFails
    \/ OutputDirectoryExists
    \/ ProcessStart
    \/ WalkDone
    \/ WalkRecurse
    \/ WalkCreate
    \/ WalkSkip
    \/ AfterCreate
    \/ ExceptHandler
    \/ CptImagePath
    \/ CptCheckExisting
    \/ CptOpen
    \/ CptCheckDuration
    \/ CptMetadata
    \/ CptLayout
    \/ CptCapture
    \/ CptSave
    \/ CptClose

Spec == Init /\ [][Next]_vars

(***************************************************************************)
(* Evaluations of the pure functions on bounded inputs.                    *)
(***************************************************************************)
MachineIdle ==
    /\ pc = "idle"
    /\ args = None
    /\ params = None
    /\ fs = <<>>
    /\ env = None
    /\ walk = None
    /\ cpt = None
    /\ log = None

InitFormat ==
    /\ MachineIdle
    /\ \E n \in 0 .. MaxSeconds, d \in {1, 2} :
          pure = [fn |-> "format_time", arg |-> Rat(n, d), res |-> None]

ApplyFormatTime ==
    /\ pure.fn = "format_time"
    /\ IsNone(pure.res)
    /\ pure' = [pure EXCEPT !.res = Some(format_time(pure.arg))]
    /\ UNCHANGED <<pc, args, params, fs, env, walk, cpt, log>>

NextFormat == ApplyFormatTime

SpecFormat == InitFormat /\ [][NextFormat]_vars

InitLayout ==
    /\ MachineIdle
    /\ \E w \in (0 .. MaxWidth) \cup {DEFAULT_WIDTH},
          c \in 1 .. MaxColumns,
          s \in 0 .. MaxSpacing,
          v \in VideoSizes :
          pure = [fn |-> "layout", width |-> w, columns |-> c, spacing |-> s,
                  video_width |-> v[1], video_height |-> v[2], res |-> None]

ApplyLayout ==
    /\ pure.fn = "layout"
    /\ IsNone(pure.res)
    /\ pure' = [pure EXCEPT !.res = Some(
          [thumbnail_width |-> thumbnail_width(pure.width, pure.columns, pure.spacing),
           thumbnail_height |-> thumbnail_height(pure.width, pure.columns, pure.spacing,
                                                 pure.video_width, pure.video_height),
           image_width |-> image_width(pure.width, pure.columns, pure.spacing)])]
    /\ UNCHANGED <<pc, args, params, fs, env, walk, cpt, log>>

NextLayout == ApplyLayout

SpecLayout == InitLayout /\ [][NextLayout]_vars

\* get_parameters on every command line: each option given (with a value
\* that is not its default) or omitted, each switch on or off.
Given(v) == {None, Some(v)}

InitParameters ==
    /\ MachineIdle
    /\ \E filename \in Given("vids"), recursive \in Booleans,
          width \in Given(640), columns \in Given(5), rows \in Given(2),
          spacing \in Given(1),
          header_font \in Given("Good.ttf"), header_font_size \in Given(20),
          timestamp_font \in Given("Good.ttf"), timestamp_font_size \in Given(10),
          skip_seconds \in Given(5), suffix \in Given("_x"),
          jpeg_quality \in Given(80), override_existing \in Booleans,
          output_directory \in Given("out"), raise_errors \in Booleans,
          verbose \in Booleans :
          pure = [fn |-> "get_parameters",
                  args |-> [filename |-> filename, recursive |-> recursive,
                            width |-> width, columns |-> columns, rows |-> rows,
                            spacing |-> spacing, header_font |-> header_font,
                            header_font_size |-> header_font_size,
                            timestamp_font |-> timestamp_font,
                            timestamp_font_size |-> timestamp_font_size,
                            skip_seconds |-> skip_seconds, suffix |-> suffix,
                            jpeg_quality |-> jpeg_quality,
                            override_existing |-> override_existing,
                            output_directory |-> output_directory,
                            raise_errors |-> raise_errors, verbose |-> verbose],
                  res |-> None]

ApplyGetParameters ==
    /\ pure.fn = "get_parameters"
    /\ IsNone(pure.res)
    /\ pure' = [pure EXCEPT !.res = Some(get_parameters(pure.args))]
    /\ UNCHANGED <<pc, args, params, fs, env, walk, cpt, log>>

NextParameters == ApplyGetParameters

SpecParameters == InitParameters /\ [][NextParameters]_vars

\* format_size on two sizes m * 1024^e: the mantissas lie at 0, around 1024
\* and just below 1024^2, the exponents reach every unit up to 'Yi'.
Mantissas ==
    (0 .. MaxOffset)
        \cup { 1024 - d : d \in 0 .. MaxOffset }
        \cup { 1024 + d : d \in 0 .. MaxOffset }
        \cup { 1024 * 1024 - d : d \in 0 .. MaxOffset }

Sizes == { Scaled(m, e) : m \in Mantissas, e \in 0 .. Len(UNITS) }

InitSize ==
    /\ MachineIdle
    /\ \E size \in Sizes, other \in Sizes :
          pure = [fn |-> "format_size", size |-> size, other |-> other,
                  res |-> None, other_res |-> None]

ApplyFormatSize ==
    /\ pure.fn = "format_size"
    /\ IsNone(pure.res)
    /\ pure' = [pure EXCEPT !.res = Some(format_size(pure.size, "B")),
                            !.other_res = Some(format_size(pure.other, "B"))]
    /\ UNCHANGED <<pc, args, params, fs, env, walk, cpt, log>>

NextSize == ApplyFormatSize

SpecSize == InitSize /\ [][NextSize]_vars

(***************************************************************************)
(* C5: format_time returns HH:MM:SS with HH*3600 + MM*60 + SS = floor(d),  *)
(* 0 <= MM <= 59, 0 <= SS <= 59, every field zero-padded to two digits;    *)
(* format_time(3661) = "01:01:01" and format_time(59) = "00:00:59".        *)
(***************************************************************************)
HMS(t) ==
    Format02d(t \div 3600) \o ":" \o Format02d((t % 3600) \div 60)
        \o ":" \o Format02d(t % 60)

FormatTimeApplied == pure.fn = "format_time" /\ ~IsNone(pure.res)

C5_FormatTimeIsHMS ==
    FormatTimeApplied =>
        /\ Val(pure.res) = HMS(FloorDiv(pure.arg.num, pure.arg.den))
        /\ (RatEq(pure.arg, RatOfInt(3661)) => Val(pure.res) = "01:01:01")
        /\ (RatEq(pure.arg, RatOfInt(59)) => Val(pure.res) = "00:00:59")

\* Below one hour the code returns the HH:MM:SS decomposition.
FormatTimeBelowOneHour ==
    (FormatTimeApplied /\ FloorDiv(pure.arg.num, pure.arg.den) < 3600) =>
        Val(pure.res) = HMS(FloorDiv(pure.arg.num, pure.arg.den))


(***************************************************************************)
(* C6: for every width W, column count C >= 1 and spacing S >= 0           *)
(* (including S*(C+1) > W) thumbnail_width = floor((W - S*(C+1)) / C) and  *)
(* image_width = thumbnail_width*C + S*(C+1) never exceeds W; W=800, C=4,  *)
(* S=2 gives thumbnail_width 197 and image_width 798.                      *)
(***************************************************************************)
LayoutApplied == pure.fn = "layout" /\ ~IsNone(pure.res)

\* W - S*(C+1), the width left for the thumbnails of one row
LayoutNet == pure.width - pure.spacing * (pure.columns + 1)

LayoutIsDefault == pure.width = 800 /\ pure.columns = 4 /\ pure.spacing = 2

LayoutIs16To9 == pure.video_width * 9 = pure.video_height * 16

\* The claim as written.
C7_HeightFromFlooredWidth ==
    LayoutApplied =>
        /\ Val(pure.res).thumbnail_height =
              FloorDiv(FloorDiv(LayoutNet, pure.columns) * pure.video_height,
                       pure.video_width)
        /\ (LayoutIsDefault /\ LayoutIs16To9 => Val(pure.res).thumbnail_height = 110)

\* C7 as amended: the height is the truncation of the unrounded width
\* (W - S*(C+1)) / C times video_height / video_width; for W=800, C=4, S=2
\* and a 16:9 video it is 111.
C7_HeightFromUnroundedWidth ==
    LayoutApplied =>
        LET th == Val(pure.res).thumbnail_height
            n == LayoutNet * pure.video_height
            d == pure.columns * pure.video_width
        IN  /\ LayoutNet >= 0 => (th * d <= n /\ n < (th + 1) * d)
            /\ LayoutNet < 0 => ((th - 1) * d < n /\ n <= th * d)
            /\ (LayoutIsDefault /\ LayoutIs16To9 => th = 111)

C7_Witness ==
    /\ LayoutApplied
    /\ LayoutIsDefault
    /\ LayoutIs16To9
    /\ Val(pure.res).thumbnail_width = 197
    /\ Val(pure.res).thumbnail_height = 111


(***************************************************************************)
(* What the claims about the walker and the start-up speak of.             *)
(***************************************************************************)
Range(seq) == { seq[i] : i \in 1 .. Len(seq) }
Count(seq, x) == Cardinality({ i \in 1 .. Len(seq) : seq[i] = x })

StartupOver == pc \notin {"idle", "get_parameters", "output_directory"}
StartupFailed == pc = "exited" \/ (pc = "crashed" /\ log.crashed_at = "output_directory")
\* The run is over and the walker had been entered.
WalkOver == pc = "done" \/ (pc = "crashed" /\ log.crashed_at # "output_directory")
\* The path given to the run was a directory.
StartedOnDirectory == os_path_isdir(log.fs0, Val(log.params0).path)

\* The video files below directory d at every depth, and its direct ones.
VideosBelow(files, d) ==
    { q \in DOMAIN files : /\ StartsWith(q, d \o "/")
                           /\ files[q].kind = "file"
                           /\ has_video_extension(os_path_basename(q)) }
VideosIn(files, d) == { q \in VideosBelow(files, d) : os_path_split(q)[1] = d }

(***************************************************************************)
(* C1: process_file_or_directory on a directory: with recursion enabled    *)
(* create_preview_thumbnails is invoked for every file with a video        *)
(* extension at every depth of the tree and the walk completes without     *)
(* raising; with recursion disabled it is invoked only for the video files *)
(* that are direct entries of the directory.                               *)
(***************************************************************************)
\* The walk was ended by an exception of its own, not by one that
\* create_preview_thumbnails raised and --raise-errors let through.
WalkRaised == pc = "crashed" /\ log.crashed_at = "walk"

C1_WalkVisitsEveryVideo ==
    (StartupOver /\ StartedOnDirectory) =>
        /\ ~WalkRaised
        /\ pc = "done" =>
              Range(log.handed) =
                  IF Val(log.params0).recursive
                  THEN VideosBelow(log.fs0, Val(log.params0).path)
                  ELSE VideosIn(log.fs0, Val(log.params0).path)

\* Without recursion the walk hands over exactly the direct video files.
WalkWithoutRecursion ==
    (StartupOver /\ StartedOnDirectory /\ ~Val(log.params0).recursive) =>
        /\ ~WalkRaised
        /\ pc = "done" => Range(log.handed) = VideosIn(log.fs0, Val(log.params0).path)

(***************************************************************************)
(* C2: with raise_errors off, every entry with a video extension that      *)
(* comes after a failing entry in sorted order is still handed to          *)
(* create_preview_thumbnails exactly once, and the walk returns normally.  *)
(***************************************************************************)
EntryPath(i) == os_path_join(params.path, walk.file_names[i])
\* Handling entry i failed: the walker reported an error for it, or an
\* exception left the walker while it was at that entry.
EntryFailed(i) ==
    \/ \E k \in 1 .. Len(log.errors) : log.errors[k].file = EntryPath(i)
    \/ (pc = "crashed" /\ log.crashed_at # "output_directory" /\ walk.index = i)

C2_FailureDoesNotStopTheWalk ==
    (WalkOver /\ StartedOnDirectory /\ ~params.raise_errors) =>
        \A j \in 1 .. Len(walk.file_names) :
            ( /\ \E i \in 1 .. (j - 1) : EntryFailed(i)
              /\ os_path_isfile(log.fs0, EntryPath(j))
              /\ has_video_extension(walk.file_names[j]) )
            => (pc = "done" /\ Count(log.handed, EntryPath(j)) = 1)

(***************************************************************************)
(* C3: for every configured suffix (unset, empty, non-empty) the output    *)
(* path is video_path + suffix + '.jpg' without an output directory and    *)
(* output_dir/basename(video_path) + suffix + '.jpg' with one, an unset    *)
(* suffix counting as the empty string; computing the path never fails.    *)
(***************************************************************************)
SuffixOrEmpty(p) == IF IsNone(p.suffix) THEN "" ELSE Val(p.suffix)

StatedImagePath(p, video) ==
    IF IsNone(p.output_directory_path)
    THEN video \o SuffixOrEmpty(p) \o ".jpg"
    ELSE Val(p.output_directory_path) \o "/" \o os_path_basename(video)
             \o SuffixOrEmpty(p) \o ".jpg"

\* The call has passed the statements that compute the path.
PathComputed == cpt.result # "none" /\ pc # "cpt_image_path"

C3_ImagePathForEverySuffix ==
    PathComputed =>
        /\ ~IsNone(cpt.image_path)
        /\ Val(cpt.image_path) = StatedImagePath(params, cpt.file_path)

\* With the suffix unset the path is the stated one.
ImagePathWithoutSuffix ==
    (PathComputed /\ IsNone(params.suffix)) =>
        /\ ~IsNone(cpt.image_path)
        /\ Val(cpt.image_path) = StatedImagePath(params, cpt.file_path)

(***************************************************************************)
(* C4: when the output image path already exists and override_existing is  *)
(* off, create_preview_thumbnails emits a skip message and returns with    *)
(* the existing file unchanged and without opening the video; when         *)
(* override_existing is on and the existing path is a regular file,        *)
(* processing goes on and a successful run replaces the file.              *)
(***************************************************************************)
CallOver == pc \in {"cpt_returned", "cpt_raised"}
Said(message) == message \in Range(cpt.messages)
ImageExisted == os_path_exists(cpt.fs_before, StatedImagePath(params, cpt.file_path))

C4_ExistingOutput ==
    (CallOver /\ ImageExisted) =>
        LET image == StatedImagePath(params, cpt.file_path)
        IN  /\ ~params.override_existing =>
                /\ cpt.result = "returned"
                /\ Said("exists, shall not be overridden")
                /\ fs[image] = cpt.fs_before[image]
                /\ cpt.clip = "unopened"
            /\ (params.override_existing /\ os_path_isfile(cpt.fs_before, image)) =>
                /\ Said("Creating preview thumbnails")
                /\ Said("Done.") =>
                      /\ fs[image].content.type = "jpeg"
                      /\ fs[image].content.of = cpt.file_path

\* With the suffix unset the code treats an existing output as stated.
ExistingOutputWithoutSuffix ==
    IsNone(params.suffix) => C4_ExistingOutput


(***************************************************************************)
(* C8: in any run of create_preview_thumbnails that reaches the capture    *)
(* loop, exactly rows*columns frames are requested in row-major cell       *)
(* order, the k-th request (k from 0) is at skip_seconds + k*time_step     *)
(* with time_step = (duration - skip_seconds)/(rows*columns), and the      *)
(* requested times are strictly increasing and lie in                      *)
(* [skip_seconds, duration).                                               *)
(***************************************************************************)
\* The capture loop has been reached (and perhaps left).
LoopReached ==
    \/ pc \in {"cpt_capture", "cpt_close"}
    \/ (CallOver /\ (cpt.frames # <<>> \/ cpt.saved > 0))
\* The loops have run to their end.
LoopCompleted ==
    \/ (pc = "cpt_capture" /\ ~MoreCells)
    \/ pc = "cpt_close"
    \/ (CallOver /\ cpt.saved > 0)

\* The request numbered k (from 0) is at skip_seconds + k * time_step; times
\* are exact rationals here, the code adds them up in floating point.
OnSchedule(k) ==
    LET n == params.rows * params.columns
        d == Val(cpt.video).duration
    IN  cpt.frames[k + 1].num * n =
            (params.skip_seconds * n + k * (d - params.skip_seconds))
                * cpt.frames[k + 1].den

RequestsFollowSchedule ==
    /\ \A k \in 0 .. (Len(cpt.frames) - 1) :
          /\ OnSchedule(k)
          /\ RatLeq(RatOfInt(params.skip_seconds), cpt.frames[k + 1])
          /\ RatLess(cpt.frames[k + 1], RatOfInt(Val(cpt.video).duration))
    /\ \A k \in 1 .. (Len(cpt.frames) - 1) : RatLess(cpt.frames[k], cpt.frames[k + 1])

\* The cells filled so far are those of the row-major order.
CellsRowMajor ==
    LET cells == Val(cpt.canvas).cells
    IN  \A k \in 0 .. (Len(cells) - 1) :
            /\ cells[k + 1].row = k \div params.columns
            /\ cells[k + 1].column = k % params.columns

CalledVideo == cpt.fs_before[cpt.file_path].content

SkipsWholeVideo == params.skip_seconds >= CalledVideo.duration
StepBelowFramePeriod ==
    /\ params.rows * params.columns # 0
    /\ RatLess(Rat(CalledVideo.duration - params.skip_seconds,
                   params.rows * params.columns),
               Rat(1, CalledVideo.fps))

C9_UnprocessableVideoIsSkipped ==
    (CallOver /\ CalledVideo.opens /\ (SkipsWholeVideo \/ StepBelowFramePeriod)) =>
        /\ cpt.result = "returned"
        /\ cpt.messages # <<>>
        /\ cpt.frames = <<>>
        /\ cpt.saved = 0
        /\ fs = cpt.fs_before

\* With the suffix unset the code skips such a video as stated.
UnprocessableVideoWithoutSuffix ==
    IsNone(params.suffix) => C9_UnprocessableVideoIsSkipped

(***************************************************************************)
(* C10: at start-up with an output directory configured, the run exits     *)
(* with code 1 before any file is processed if and only if the directory   *)
(* does not exist and cannot be created, or the path exists and is not a   *)
(* directory; when the path can be created or already is a directory,      *)
(* start-up completes without error and process_file_or_directory is       *)
(* called.                                                                 *)
(***************************************************************************)
OutputDirectoryConfigured == ~IsNone(args.output_directory)
OutputDirectoryUnusable ==
    LET out == Val(args.output_directory)
    IN  \/ (~os_path_exists(log.fs0, out) /\ ~env.makedirs_ok)
        \/ (os_path_exists(log.fs0, out) /\ ~os_path_isdir(log.fs0, out))

C10_OutputDirectorySetup ==
    (StartupOver /\ OutputDirectoryConfigured) =>
        /\ StartupFailed <=> OutputDirectoryUnusable
        /\ StartupFailed => log.exit_code = Some(1) /\ log.handed = <<>>

\* A directory that has to be created is handled as stated.
OutputDirectoryToCreate ==
    (StartupOver /\ OutputDirectoryConfigured
        /\ ~os_path_exists(log.fs0, Val(args.output_directory))) =>
        /\ StartupFailed <=> ~env.makedirs_ok
        /\ StartupFailed => log.exit_code = Some(1) /\ log.handed = <<>>
        /\ ~StartupFailed => os_path_isdir(fs, Val(args.output_directory))

(***************************************************************************)
(* C11: when the metadata parser reports no Video track for a file         *)
(* (whatever other tracks it reports, none at all included),               *)
(* create_preview_thumbnails returns normally: no exception reaches the    *)
(* walker, no frame is captured and no image is saved.                     *)
(***************************************************************************)
\* The metadata parser has been asked and has reported no Video track.
NoVideoTrackReported == ~IsNone(cpt.metadata) /\ IsNone(Val(cpt.metadata).video)

C11_NoVideoTrackReturns ==
    (CallOver /\ NoVideoTrackReported) =>
        /\ cpt.result = "returned"
        /\ cpt.frames = <<>>
        /\ cpt.saved = 0
        /\ fs = cpt.fs_before

\* With a General track reported the file is given up as stated.
NoVideoTrackWithGeneralTrack ==
    (CallOver /\ NoVideoTrackReported /\ ~IsNone(Val(cpt.metadata).general)) =>
        /\ cpt.result = "returned"
        /\ cpt.frames = <<>>
        /\ cpt.saved = 0
        /\ fs = cpt.fs_before

(***************************************************************************)
(* C14: whenever create_preview_thumbnails has opened the video clip, the  *)
(* clip is closed before control leaves the function on every exit path:   *)
(* the normal path after the save, the early returns (skip_seconds >=      *)
(* duration, too short a video, missing video track) and any exception     *)
(* raised after the open.                                                  *)
(***************************************************************************)
ClipWasOpened == cpt.clip # "unopened"

C14_ClipClosedOnEveryExit ==
    (CallOver /\ ClipWasOpened) => cpt.clip = "closed"

\* The clip is closed on the path through the save, and on no other.
ClipClosedAfterSave ==
    (CallOver /\ ClipWasOpened) => (cpt.clip = "closed" <=> cpt.saved = 1)

(***************************************************************************)
(* C15: in every run of create_preview_thumbnails the output image is      *)
(* written at most once, and only after the header and all rows*columns    *)
(* cells have been composed; if a step before the save fails or returns    *)
(* early, nothing is written to the output path and a file that was there  *)
(* is left as it was.                                                      *)
(***************************************************************************)
\* A call of create_preview_thumbnails is running or has just ended.
InCall == cpt.file_path # ""
\* What the call has written so far.
WrittenByCall == { q \in DOMAIN fs : q \notin DOMAIN cpt.fs_before \/ fs[q] # cpt.fs_before[q] }
\* thumbnails_image.save itself raised (what a failed save leaves at the path
\* is the image library's matter and no part of the claim).
SaveFailed == cpt.result = "raised" /\ cpt.raised_at = "cpt_capture" /\ ~MoreCells
HeaderComposed == ~IsNone(cpt.canvas) /\ Val(cpt.canvas).header_lines = 4
CellsComposed == IF IsNone(cpt.canvas) THEN 0 ELSE Len(Val(cpt.canvas).cells)

ParametersBuilt == ~IsNone(log.params0)

C16_ParametersNeverChange ==
    ParametersBuilt => params = Val(log.params0)

\* Every field but path keeps its value, and path changes only when it named
\* a file, to the directory part of that name.
ParametersChangeOnlyInPath ==
    ParametersBuilt =>
        LET p0 == Val(log.params0)
        IN  /\ [params EXCEPT !.path = p0.path] = p0
            /\ params.path # p0.path =>
                  /\ os_path_isfile(log.fs0, p0.path)
                  /\ params.path = os_path_split(p0.path)[1]

(***************************************************************************)
(* C12: get_parameters, for every combination of given and omitted flags:  *)
(* each parameter equals the value of its own flag when that flag is given *)
(* and its default otherwise, independently of every other flag; in        *)
(* particular timestamp_font_size is the --timestamp-font-size value when  *)
(* given and 12 when omitted, whether or not --header-font-size is given.  *)
(***************************************************************************)
ParametersApplied == pure.fn = "get_parameters" /\ ~IsNone(pure.res)

\* The value of an option when given, else the default.
OwnFlag(flag, default) == IF IsNone(flag) THEN default ELSE Val(flag)

\* Every parameter but timestamp_font_size follows its own flag.
FollowOwnFlags(p, a) ==
    /\ p.path = OwnFlag(a.filename, DEFAULT_PATH)
    /\ p.recursive = a.recursive
    /\ p.width = OwnFlag(a.width, DEFAULT_WIDTH)
    /\ p.columns = OwnFlag(a.columns, DEFAULT_COLUMNS)
    /\ p.rows = OwnFlag(a.rows, DEFAULT_ROWS)
    /\ p.spacing = OwnFlag(a.spacing, DEFAULT_SPACING)
    /\ p.header_font_name = a.header_font
    /\ p.header_font_size = OwnFlag(a.header_font_size, DEFAULT_HEADER_FONT_SIZE)
    /\ p.timestamp_font_name = a.timestamp_font
    /\ p.skip_seconds = OwnFlag(a.skip_seconds, DEFAULT_SKIP_SECONDS)
    /\ p.suffix = a.suffix
    /\ p.jpeg_quality = OwnFlag(a.jpeg_quality, DEFAULT_JPEG_QUALITY)
    /\ p.override_existing = a.override_existing
    /\ p.output_directory_path = a.output_directory
    /\ p.raise_errors = a.raise_errors
    /\ p.verbose = a.verbose

C12_EveryFlagSetsItsOwnParameter ==
    ParametersApplied =>
        /\ FollowOwnFlags(Val(pure.res), pure.args)
        /\ Val(pure.res).timestamp_font_size =
              Some(OwnFlag(pure.args.timestamp_font_size, DEFAULT_TIMESTAMP_FONT_SIZE))

\* What the code does: the other parameters follow their flags, and
\* timestamp_font_size follows --header-font-size being given.
TimestampFontSizeFollowsHeaderFlag ==
    ParametersApplied =>
        /\ FollowOwnFlags(Val(pure.res), pure.args)
        /\ Val(pure.res).timestamp_font_size =
              IF IsNone(pure.args.header_font_size)
              THEN Some(DEFAULT_TIMESTAMP_FONT_SIZE)
              ELSE pure.args.timestamp_font_size

(***************************************************************************)
(* C13: format_size, for every non-negative integer size, picks the unit   *)
(* prefix so that the numeric value it prints (size divided by 1024 once   *)
(* per prefix step, shown with 2 decimals) lies in [0, 1024) for every     *)
(* prefix from none up to Zi, only the terminal Yi tier being allowed a    *)
(* value of 1024 or more; and the chosen prefix index never decreases as   *)
(* size grows.                                                             *)
(***************************************************************************)
SizeApplied == pure.fn = "format_size" /\ ~IsNone(pure.res)

\* a.m * 1024^a.e <= b.m * 1024^b.e, for mantissas below 2^30
SizeLeq(a, b) ==
    LET k == a.e - b.e
        P(j) == Pow1024(IF j > 3 THEN 3 ELSE j)
    IN  \/ a.m = 0
        \/ (k >= 0 /\ a.m <= b.m \div P(k))
        \/ (k < 0 /\ ~(b.m <= (a.m - 1) \div P(-k)))

PrefixNeverDecreases ==
    SizeLeq(pure.size, pure.other) => Val(pure.res).unit <= Val(pure.other_res).unit

C13_PrintedValueBelow1024 ==
    SizeApplied =>
        /\ Val(pure.res).unit < Len(UNITS) =>
              (0 <= Val(pure.res).hundredths /\ Val(pure.res).hundredths < 102400)
        /\ PrefixNeverDecreases

\* What the code keeps: the value before the rounding to 2 decimals is below
\* 1024 under every prefix before Yi, the printed value is at most 1024.00,
\* and the prefix never decreases as the size grows.
UnroundedValueBelow1024 ==
    SizeApplied =>
        LET x == Scaled(pure.size.m, pure.size.e - Val(pure.res).unit)
        IN  /\ Val(pure.res).unit < Len(UNITS) =>
                  /\ AbsBelow1024(x)
                  /\ 0 <= Val(pure.res).hundredths
                  /\ Val(pure.res).hundredths <= 102400
            /\ Val(pure.res).unit > 0 => ~AbsBelow1024(Scaled(x.m, x.e + 1))
            /\ PrefixNeverDecreases

=============================================================================
